---- MODULE Spec2Model ----
(***************************************************************************)
(* Requirement notebooks of lsst-sitcom/requirements_notebooks as state    *)
(* machines: a notebook is a sequence of cells, each cell one action; pc   *)
(* names the next cell to run and raised the exception that stopped the    *)
(* run.  Angles are integers: milliarcseconds in the astrometry notebooks, *)
(* tenths of an arcsecond in LVV-T1068.  A float that can be "nan" or a    *)
(* non-integer mean or ratio is held as a record [num, den]; den = 0 is    *)
(* nan.  Catalogue positions of the notebooks that only match by distance  *)
(* are points of a line, the separation being the absolute difference.     *)
(***************************************************************************)
EXTENDS Integers, Sequences, FiniteSets, TLC

VARIABLES
    notebook,               \* the notebook that is run
    pc,                     \* the next cell of the notebook
    raised,                 \* "none" or the exception that stopped the run
    gaia_visit_df,          \* Gaia rows of the visit
    hsc_sources_coords,     \* positions of the measured (HSC) sources
    astropy_seps,           \* what SkyCoord.separation yields for the pairs
    matched_idx,            \* part_001: nearest HSC index of each Gaia row
    matched_df,             \* matched catalogue rows
    sep_df,                 \* rows [sep_hsc, sep_gaia, diff]
    five_arcmin_df, twenty_arcmin_df, two_hundred_arcmin_df,
    median_diff_5_arcmin, median_diff_20_arcmin, median_diff_200_arcmin,
    current_outlier_frac_5, current_outlier_frac_20, current_outlier_frac_200,
    error_present, error_val, error_msg,
    base_idx, ref_idx, matched_seps,    \* LVV-T960: get_best_catalog_match
    outlier_frac_5_arcmin, outlier_frac_20_arcmin,
    job_measurements,       \* the measurements inserted into the Job
    job_reported,           \* job.report().show() has run
    job_dispatched,         \* job.dispatch(...) has run
    idx,                    \* LVV-T297: nearest HSC index of each Gaia row
    sep_ra, sep_dec, ra_median_sep, dec_median_sep,
    deep_coords, u_deep_coords,     \* LVV-T1068: the two catalogues
    d2d,                    \* separation of each deep source to its match
    found_objects_idx, unmatched_idx, false_positive_frac,
    patches,                \* LVV-T1068: the sources of each patch of test_tract
    test_patch_idx,         \* the patches read so far
    u_deep_src_df, deep_src_df,     \* None (<<>>) or <<the rows read so far>>
    ud_center,              \* "unset", "ud_1" or "ud_2"
    sep_differences,        \* LVV-T959: r_sep - test_sep of the pairs
    fail_in_notebook_cell,  \* the value the cell "fail_in_notebook = ..." holds
    rms_diff,               \* the square of rms_diff (a mean of squares)
    current_outlier_frac,
    fail_in_notebook,
    stdout,                 \* what the last cell printed
    num_unique_objects,
    sample,                 \* rand_state.choice(...): row indices from 0
    pairs_list

inputVars == <<gaia_visit_df, hsc_sources_coords, astropy_seps>>
matchVars == <<matched_idx, matched_df>>
bandVars  == <<five_arcmin_df, twenty_arcmin_df, two_hundred_arcmin_df>>
medianVars == <<median_diff_5_arcmin, median_diff_20_arcmin, median_diff_200_arcmin>>
histVars  == <<current_outlier_frac_5, current_outlier_frac_20, current_outlier_frac_200>>
errorVars == <<error_present, error_val, error_msg>>
bestVars  == <<base_idx, ref_idx, matched_seps>>
afVars    == <<outlier_frac_5_arcmin, outlier_frac_20_arcmin>>
jobVars   == <<job_measurements, job_reported, job_dispatched>>
absVars   == <<idx, sep_ra, sep_dec, ra_median_sep, dec_median_sep>>
deepInVars == <<deep_coords, u_deep_coords>>
deepVars  == <<d2d, found_objects_idx, unmatched_idx, false_positive_frac>>
loadVars  == <<patches, test_patch_idx, u_deep_src_df, deep_src_df, ud_center>>
interVars == <<sep_differences, fail_in_notebook_cell, rms_diff, current_outlier_frac,
               fail_in_notebook, stdout>>
pairVars  == <<num_unique_objects, sample, pairs_list>>
relVars   == <<astropy_seps, matched_df, sep_df, bandVars, medianVars, histVars,
               errorVars, bestVars, afVars, jobVars>>

\* the variables of the other parts of the notebooks
otherVars == <<loadVars, interVars, pairVars>>

\* the variables a notebook never assigns
P1_Unused == <<bestVars, afVars, jobVars, absVars, deepInVars, deepVars, otherVars>>
T960_Unused == <<matched_idx, current_outlier_frac_5, current_outlier_frac_20, errorVars,
                 absVars, deepInVars, deepVars, otherVars>>
T297_Unused == <<matched_idx, relVars, deepInVars, deepVars, otherVars>>
T1068_Unused == <<gaia_visit_df, hsc_sources_coords, relVars, absVars, otherVars>>
T1068Load_Unused == <<gaia_visit_df, hsc_sources_coords, relVars, absVars, deepInVars,
                      matched_idx, deepVars, interVars, pairVars>>
T959_Unused == <<gaia_visit_df, hsc_sources_coords, astropy_seps, matchVars, sep_df,
                 bandVars, medianVars, histVars, bestVars, afVars, jobVars, absVars,
                 deepInVars, deepVars, loadVars, pairVars>>

vars == <<notebook, pc, raised, inputVars, matchVars, sep_df, bandVars, medianVars,
          histVars, errorVars, bestVars, afVars, jobVars, absVars, deepInVars,
          deepVars, otherVars>>

-----------------------------------------------------------------------------
(* Bounds of the model.                                                    *)

MaxGaia == 2        \* Gaia rows of a visit
MaxHsc == 2         \* measured sources of a visit
MaxPairs == 3       \* rows of sep_df
MaxDeep == 3        \* sources of the deep catalogue
MaxUDeep == 2       \* sources of the ultra-deep catalogue
MaxPatches == 2     \* patches of the tract
MaxInterPairs == 5  \* pairs of LVV-T959
MaxObjects == 6     \* rows of matched_df when the pairs are drawn
UseObjects == 3     \* the size of the sample, 300 (200 in part_001) in the notebooks

-----------------------------------------------------------------------------
(* Numbers.                                                                *)

Abs(x) == IF x < 0 THEN -x ELSE x

Range(s) == {s[i] : i \in DOMAIN s}

SeqsUpTo(S, n) == UNION {[1..k -> S] : k \in 0..n}

\* A float as a ratio; den = 0 is nan.
Rat(n, d) == [num |-> n, den |-> d]

NaN == Rat(0, 0)

\* np.isnan
IsNaN(x) == x.den = 0

\* x > k for a float x and an integer k: False when x is nan.
RatGT(x, k) == x.den > 0 /\ x.num > k * x.den

\* (1. - x) * 100 > k for a float x: False when x is nan.
OneMinusPctGT(x, k) == x.den > 0 /\ (x.den - x.num) * 100 > k * x.den

\* x = n / d as numbers (d > 0)
RatEq(x, n, d) == x.den > 0 /\ x.num * d = n * x.den

\* np.abs of a column
AbsAll(s) == [i \in DOMAIN s |-> Abs(s[i])]

\* np.median: nan of nothing, the middle value, or the mean of the two
\* middle values.
Median(s) ==
    LET n == Len(s)
        srt == SortSeq(s, LAMBDA a, b : a < b)
    IN  IF n = 0 THEN NaN
        ELSE IF n % 2 = 1 THEN Rat(srt[(n + 1) \div 2], 1)
        ELSE Rat(srt[n \div 2] + srt[n \div 2 + 1], 2)

\* range=(0, 0.1) arcsec of the histograms, in mas
HistLo == 0
HistHi == 100
\* the 0.02 arcsec of np.where(bins < 0.02), in mas
HistThreshold == 20
\* matplotlib's number of bins when plt.hist is given none
DefaultBins == 10

\* np.linspace(lo, hi, nbins + 1): the edges of nbins equal bins.
BinEdges(lo, hi, nbins) == [i \in 1..(nbins + 1) |-> lo + ((i - 1) * (hi - lo)) \div nbins]

\* np.histogram's count of bin k of the edges: [edges[k], edges[k+1]), the
\* last bin closed on the right; values outside the edges are in no bin.
BinCount(s, edges, k) ==
    Cardinality({i \in DOMAIN s :
        /\ edges[k] <= s[i]
        /\ \/ s[i] < edges[k + 1]
           \/ k = Len(edges) - 1 /\ s[i] = edges[k + 1]})

\* plt.hist(..., cumulative=True, density=True): n[k] is the count of the
\* bins 1..k over the count of all bins.
CumulativeDensity(s, edges) ==
    LET nb == Len(edges) - 1
        upto[k \in 0..nb] == IF k = 0 THEN 0 ELSE upto[k - 1] + BinCount(s, edges, k)
    IN  [k \in 1..nb |-> Rat(upto[k], upto[nb])]

\* np.where(bins < x)[0][-1]: the index of the last edge below x; as an
\* index of n it is the bin that starts at that edge.
LastEdgeBelow(edges, x) ==
    CHOOSE k \in DOMAIN edges :
        /\ edges[k] < x
        /\ \A j \in DOMAIN edges : edges[j] < x => j <= k

\* n[np.where(bins < 0.02)[0][-1]] of the cumulative histogram of s over
\* range=(0, 0.1) arcsec with nbins bins; nan when no value is in range.
HistFracBelow(s, nbins) ==
    LET edges == BinEdges(HistLo, HistHi, nbins)
        n == CumulativeDensity(s, edges)
        k == LastEdgeBelow(edges, HistThreshold)
    IN  n[k]

-----------------------------------------------------------------------------
(* Inputs: the catalogues a notebook loads and the separations astropy     *)
(* computes for its pairs.  The statistics of a table of pairs depend on   *)
(* its rows and not on their order, so tables are drawn up to order.       *)

\* no two sources of a catalogue are at one position
Injective(s) == \A i, j \in DOMAIN s : s[i] = s[j] => i = j

GaiaPos == {0, 4, 9}

HscPos == {1, 2, 3, 8}

\* <<pmra, pmdec>> in mas/yr
PmVals == {<<0, 0>>, <<5, 0>>, <<0, -6>>}

GaiaRowVals == {[ra |-> p, pmra |-> m[1], pmdec |-> m[2]] : p \in GaiaPos, m \in PmVals}

GaiaCatalogs ==
    {[i \in DOMAIN g |-> [source_id |-> i, ra |-> g[i].ra,
                          pmra |-> g[i].pmra, pmdec |-> g[i].pmdec]] :
        g \in {q \in SeqsUpTo(GaiaRowVals, MaxGaia) :
                   Injective([i \in DOMAIN q |-> q[i].ra])}}

HscCatalogs == {h \in SeqsUpTo(HscPos, MaxHsc) : Injective(h)}

\* Gaia separations of a pair, in mas: at the lower edge of the 5 arcmin
\* band and at the centre of each band
SepGaiaVals == {270000, 300000, 1200000, 12000000}

\* sep_gaia - sep_hsc of a pair, in mas
DiffVals == {5, 12, 20, -25, 120}

SepRowVals == {[sep_hsc |-> g - d, sep_gaia |-> g] : g \in SepGaiaVals, d \in DiffVals}

RowLE(a, b) ==
    \/ a.sep_gaia < b.sep_gaia
    \/ a.sep_gaia = b.sep_gaia /\ a.sep_hsc <= b.sep_hsc

SepTables ==
    {s \in SeqsUpTo(SepRowVals, MaxPairs) :
        \A i \in 1..(Len(s) - 1) : RowLE(s[i], s[i + 1])}

OneGaia == <<[source_id |-> 1, ra |-> 0, pmra |-> 0, pmdec |-> 0]>>

OneHsc == <<1>>

\* Either the catalogues vary and there are no pairs, or the table of
\* pairs varies over one fixed match.
RelInputs ==
    {[gaia |-> g, hsc |-> h, seps |-> <<>>] : g \in GaiaCatalogs, h \in HscCatalogs}
    \cup {[gaia |-> OneGaia, hsc |-> OneHsc, seps |-> s] : s \in SepTables}

-----------------------------------------------------------------------------
(* What an exception does: the run stops at the cell that raised it.       *)

Running(nb, cell) == notebook = nb /\ pc = cell /\ raised = "none"

-----------------------------------------------------------------------------
(* Operators shared by the relative-astrometry notebooks.                  *)

\* the low proper motion cut: -5 < pmra < 5 and -5 < pmdec < 5 (mas/yr)
PmLimit == 5

LowPm(row) ==
    /\ row.pmra > -PmLimit /\ row.pmra < PmLimit
    /\ row.pmdec > -PmLimit /\ row.pmdec < PmLimit

\* SkyCoord.separation of two positions of the line
Separation(a, b) == Abs(a - b)

\* match_to_catalog_sky: for every source of coords the index of a nearest
\* source of catalog; which one of several equally near is not specified.
NearestIdx(pos, catalog) ==
    {k \in DOMAIN catalog :
        \A j \in DOMAIN catalog : Separation(pos, catalog[k]) <= Separation(pos, catalog[j])}

MatchToCatalogSky(coords, catalog) ==
    {m \in [DOMAIN coords -> DOMAIN catalog] :
        \A i \in DOMAIN coords : m[i] \in NearestIdx(coords[i], catalog)}

MasPerArcsec == 1000

\* lims = 30: arcseconds on either side of the separation of a band
lims == 30

five_arcmin == 300
twenty_arcmin == 1200
two_hundred_arcmin == 12000

\* the query with bounds that are not strict (a fault)
BandQuery_closed(df, centre) ==
    SelectSeq(df, LAMBDA r :
        /\ r.sep_gaia >= (centre - lims) * MasPerArcsec
        /\ r.sep_gaia <= (centre + lims) * MasPerArcsec)

\* sep_df.query('sep_gaia > centre-lims and sep_gaia < centre+lims')
BandQuery(df, centre) ==
    SelectSeq(df, LAMBDA r :
        /\ r.sep_gaia > (centre - lims) * MasPerArcsec
        /\ r.sep_gaia < (centre + lims) * MasPerArcsec)

\* the column df['diff']
DiffCol(df) == [i \in DOMAIN df |-> df[i].diff]

-----------------------------------------------------------------------------
(* part_001: the earlier LVV-T960 notebook (relative astrometry, last      *)
(* updated 07-22-2019).                                                    *)

\* the requirements the checks compare with: 10 mas and 10 percent
MedianLimit == 10
OutlierPctLimit == 10

\* A fresh kernel that runs notebook nb from its cell start: nothing is
\* computed yet.
FreshBut(nb, start) ==
    /\ notebook = nb
    /\ pc = start
    /\ raised = "none"
    /\ matched_idx = <<>>
    /\ sep_df = <<>>
    /\ five_arcmin_df = <<>>
    /\ twenty_arcmin_df = <<>>
    /\ two_hundred_arcmin_df = <<>>
    /\ median_diff_5_arcmin = NaN
    /\ median_diff_20_arcmin = NaN
    /\ median_diff_200_arcmin = NaN
    /\ current_outlier_frac_5 = NaN
    /\ current_outlier_frac_20 = NaN
    /\ current_outlier_frac_200 = NaN
    /\ error_present = FALSE
    /\ error_val = 0
    /\ error_msg = <<>>
    /\ base_idx = <<>>
    /\ ref_idx = <<>>
    /\ matched_seps = <<>>
    /\ outlier_frac_5_arcmin = NaN
    /\ outlier_frac_20_arcmin = NaN
    /\ job_measurements = <<>>
    /\ job_reported = FALSE
    /\ job_dispatched = FALSE
    /\ idx = <<>>
    /\ sep_ra = <<>>
    /\ sep_dec = <<>>
    /\ ra_median_sep = NaN
    /\ dec_median_sep = NaN
    /\ d2d = <<>>
    /\ found_objects_idx = {}
    /\ unmatched_idx = {}
    /\ false_positive_frac = NaN
    /\ test_patch_idx = 0
    /\ u_deep_src_df = <<>>
    /\ deep_src_df = <<>>
    /\ ud_center = "unset"
    /\ rms_diff = NaN
    /\ current_outlier_frac = NaN
    /\ fail_in_notebook = FALSE
    /\ stdout = <<>>
    /\ num_unique_objects = 0
    /\ sample = <<>>
    /\ pairs_list = <<>>

\* ... and no catalogue is matched yet
Fresh(nb, start) == FreshBut(nb, start) /\ matched_df = <<>>

\* no patch is read
NoPatches == patches = <<>>

\* no pairs of LVV-T959
NoInter == sep_differences = <<>> /\ fail_in_notebook_cell = FALSE

\* the inputs of the other parts of the notebooks are not loaded
Absent == NoPatches /\ NoInter

\* the catalogues and pair separations a relative-astrometry notebook loads
RelLoaded(inp) ==
    /\ gaia_visit_df = inp.gaia
    /\ hsc_sources_coords = inp.hsc
    /\ astropy_seps = inp.seps
    /\ deep_coords = <<>>
    /\ u_deep_coords = <<>>
    /\ Absent

P1_Init == \E inp \in RelInputs : Fresh("part_001", "low_pm") /\ RelLoaded(inp)

\* gaia_visit_df = gaia_visit_df.iloc[low_pm]
P1_LowPm ==
    /\ Running("part_001", "low_pm")
    /\ gaia_visit_df' = SelectSeq(gaia_visit_df, LowPm)
    /\ pc' = "match"
    /\ UNCHANGED <<notebook, raised, hsc_sources_coords, astropy_seps, matchVars, sep_df,
                   bandVars, medianVars, histVars, errorVars, P1_Unused>>

\* matched_idx, sep2d, sep3d = gaia_coords.match_to_catalog_sky(hsc_sources_coords)
\* astropy refuses a catalogue of length 0.
P1_Match ==
    /\ Running("part_001", "match")
    /\ IF Len(hsc_sources_coords) = 0
       THEN /\ raised' = "ValueError"
            /\ UNCHANGED <<pc, matched_idx>>
       ELSE /\ matched_idx' \in
                   MatchToCatalogSky([i \in DOMAIN gaia_visit_df |-> gaia_visit_df[i].ra],
                                     hsc_sources_coords)
            /\ pc' = "matched_df"
            /\ UNCHANGED raised
    /\ UNCHANGED <<notebook, inputVars, matched_df, sep_df, bandVars, medianVars, histVars,
                   errorVars, P1_Unused>>

\* one row of matched_df for every Gaia row, with the HSC source matched to it
P1_MatchedDf ==
    /\ Running("part_001", "matched_df")
    /\ matched_df' =
           [gaia_idx \in DOMAIN gaia_visit_df |->
               [HSC_id |-> matched_idx[gaia_idx],
                HSC_ra |-> hsc_sources_coords[matched_idx[gaia_idx]],
                gaia_id |-> gaia_visit_df[gaia_idx].source_id,
                gaia_ra |-> gaia_visit_df[gaia_idx].ra]]
    /\ pc' = "calc_separations"
    /\ UNCHANGED <<notebook, raised, inputVars, matched_idx, sep_df, bandVars, medianVars,
                   histVars, errorVars, P1_Unused>>

\* visit_seps = calc_separations(matched_df, pairs_list); sep_df = DataFrame(visit_seps)
\* The separations astropy computes for the sampled pairs are an input
\* (astropy_seps): the statistics below depend on them alone.
P1_CalcSeparations ==
    /\ Running("part_001", "calc_separations")
    /\ sep_df' = astropy_seps
    /\ pc' = "diff"
    /\ UNCHANGED <<notebook, raised, inputVars, matchVars, bandVars, medianVars, histVars,
                   errorVars, P1_Unused>>

\* sep_df['diff'] = sep_df['sep_gaia'] - sep_df['sep_hsc']
AddDiff(df) ==
    [i \in DOMAIN df |->
        [sep_hsc |-> df[i].sep_hsc, sep_gaia |-> df[i].sep_gaia,
         diff |-> df[i].sep_gaia - df[i].sep_hsc]]

P1_Diff ==
    /\ Running("part_001", "diff")
    /\ sep_df' = AddDiff(sep_df)
    /\ pc' = "five_arcmin"
    /\ UNCHANGED <<notebook, raised, inputVars, matchVars, bandVars, medianVars, histVars,
                   errorVars, P1_Unused>>

P1_FiveArcmin ==
    /\ Running("part_001", "five_arcmin")
    /\ five_arcmin_df' = BandQuery(sep_df, five_arcmin)
    /\ pc' = "median_5"
    /\ UNCHANGED <<notebook, raised, inputVars, matchVars, sep_df, twenty_arcmin_df,
                   two_hundred_arcmin_df, medianVars, histVars, errorVars, P1_Unused>>

P1_Median5 ==
    /\ Running("part_001", "median_5")
    /\ median_diff_5_arcmin' = Median(AbsAll(DiffCol(five_arcmin_df)))
    /\ pc' = "hist_5"
    /\ UNCHANGED <<notebook, raised, inputVars, matchVars, sep_df, bandVars,
                   median_diff_20_arcmin, median_diff_200_arcmin, histVars, errorVars, P1_Unused>>

P1_Hist5 ==
    /\ Running("part_001", "hist_5")
    /\ current_outlier_frac_5' = HistFracBelow(AbsAll(DiffCol(five_arcmin_df)), DefaultBins)
    /\ pc' = "twenty_arcmin"
    /\ UNCHANGED <<notebook, raised, inputVars, matchVars, sep_df, bandVars, medianVars,
                   current_outlier_frac_20, current_outlier_frac_200, errorVars, P1_Unused>>

P1_TwentyArcmin ==
    /\ Running("part_001", "twenty_arcmin")
    /\ twenty_arcmin_df' = BandQuery(sep_df, twenty_arcmin)
    /\ pc' = "median_20"
    /\ UNCHANGED <<notebook, raised, inputVars, matchVars, sep_df, five_arcmin_df,
                   two_hundred_arcmin_df, medianVars, histVars, errorVars, P1_Unused>>

P1_Median20 ==
    /\ Running("part_001", "median_20")
    /\ median_diff_20_arcmin' = Median(AbsAll(DiffCol(twenty_arcmin_df)))
    /\ pc' = "hist_20"
    /\ UNCHANGED <<notebook, raised, inputVars, matchVars, sep_df, bandVars,
                   median_diff_5_arcmin, median_diff_200_arcmin, histVars, errorVars, P1_Unused>>

P1_Hist20 ==
    /\ Running("part_001", "hist_20")
    /\ current_outlier_frac_20' = HistFracBelow(AbsAll(DiffCol(twenty_arcmin_df)), DefaultBins)
    /\ pc' = "two_hundred_arcmin"
    /\ UNCHANGED <<notebook, raised, inputVars, matchVars, sep_df, bandVars, medianVars,
                   current_outlier_frac_5, current_outlier_frac_200, errorVars, P1_Unused>>

P1_TwoHundredArcmin ==
    /\ Running("part_001", "two_hundred_arcmin")
    /\ two_hundred_arcmin_df' = BandQuery(sep_df, two_hundred_arcmin)
    /\ pc' = "median_200"
    /\ UNCHANGED <<notebook, raised, inputVars, matchVars, sep_df, five_arcmin_df,
                   twenty_arcmin_df, medianVars, histVars, errorVars, P1_Unused>>

P1_Median200 ==
    /\ Running("part_001", "median_200")
    /\ median_diff_200_arcmin' = Median(AbsAll(DiffCol(two_hundred_arcmin_df)))
    /\ pc' = "hist_200"
    /\ UNCHANGED <<notebook, raised, inputVars, matchVars, sep_df, bandVars,
                   median_diff_5_arcmin, median_diff_20_arcmin, histVars, errorVars, P1_Unused>>

P1_Hist200 ==
    /\ Running("part_001", "hist_200")
    /\ current_outlier_frac_200' =
           HistFracBelow(AbsAll(DiffCol(two_hundred_arcmin_df)), DefaultBins)
    /\ pc' = "error_setup"
    /\ UNCHANGED <<notebook, raised, inputVars, matchVars, sep_df, bandVars, medianVars,
                   current_outlier_frac_5, current_outlier_frac_20, errorVars, P1_Unused>>

\* error_msg = ""; error_present = False; error_val = 0
P1_ErrorSetup ==
    /\ Running("part_001", "error_setup")
    /\ error_msg' = <<>>
    /\ error_present' = FALSE
    /\ error_val' = 0
    /\ pc' = "check_median_5"
    /\ UNCHANGED <<notebook, raised, inputVars, matchVars, sep_df, bandVars, medianVars, histVars, P1_Unused>>

\* error_present = True; error_val += 1; error_msg += the message
RecordError(msg) ==
    /\ error_present' = TRUE
    /\ error_val' = error_val + 1
    /\ error_msg' = Append(error_msg, msg)

\* a check cell: "if failed: record" with, for the 200 arcmin checks,
\* "elif np.isnan(value): record"
CheckCell(cell, next, failed, msg, isnan, nanmsg) ==
    /\ Running("part_001", cell)
    /\ IF failed THEN RecordError(msg)
       ELSE IF isnan THEN RecordError(nanmsg)
       ELSE UNCHANGED errorVars
    /\ pc' = next
    /\ UNCHANGED <<notebook, raised, inputVars, matchVars, sep_df, bandVars, medianVars, histVars, P1_Unused>>

\* if median_diff_5_arcmin*1000. > 10.
P1_CheckMedian5 ==
    CheckCell("check_median_5", "check_outlier_5",
              RatGT(median_diff_5_arcmin, MedianLimit), "median_5", FALSE, "")

\* if (1.-current_outlier_frac_5)*100 > 10.
P1_CheckOutlier5 ==
    CheckCell("check_outlier_5", "check_median_20",
              OneMinusPctGT(current_outlier_frac_5, OutlierPctLimit), "outlier_5", FALSE, "")

P1_CheckMedian20 ==
    CheckCell("check_median_20", "check_outlier_20",
              RatGT(median_diff_20_arcmin, MedianLimit), "median_20", FALSE, "")

P1_CheckOutlier20 ==
    CheckCell("check_outlier_20", "check_median_200",
              OneMinusPctGT(current_outlier_frac_20, OutlierPctLimit), "outlier_20", FALSE, "")

\* if median_diff_200_arcmin*1000. > 10.: ... elif np.isnan(median_diff_200_arcmin): ...
P1_CheckMedian200 ==
    CheckCell("check_median_200", "check_outlier_200",
              RatGT(median_diff_200_arcmin, MedianLimit), "median_200",
              IsNaN(median_diff_200_arcmin), "median_200_nan")

\* if (1.-current_outlier_frac_200)*100 > 10.: ... elif np.isnan(current_outlier_frac_200): ...
P1_CheckOutlier200 ==
    CheckCell("check_outlier_200", "raise",
              OneMinusPctGT(current_outlier_frac_200, OutlierPctLimit), "outlier_200",
              IsNaN(current_outlier_frac_200), "outlier_200_nan")

\* if error_present is True: raise RequirementFailure(error_msg)
P1_Raise ==
    /\ Running("part_001", "raise")
    /\ IF error_present
       THEN raised' = "RequirementFailure" /\ UNCHANGED pc
       ELSE pc' = "done" /\ UNCHANGED raised
    /\ UNCHANGED <<notebook, inputVars, matchVars, sep_df, bandVars, medianVars, histVars, errorVars, P1_Unused>>

P1_Next ==
    \/ P1_LowPm \/ P1_Match \/ P1_MatchedDf \/ P1_CalcSeparations \/ P1_Diff
    \/ P1_FiveArcmin \/ P1_Median5 \/ P1_Hist5
    \/ P1_TwentyArcmin \/ P1_Median20 \/ P1_Hist20
    \/ P1_TwoHundredArcmin \/ P1_Median200 \/ P1_Hist200
    \/ P1_ErrorSetup
    \/ P1_CheckMedian5 \/ P1_CheckOutlier5 \/ P1_CheckMedian20 \/ P1_CheckOutlier20
    \/ P1_CheckMedian200 \/ P1_CheckOutlier200
    \/ P1_Raise

SpecP1 == P1_Init /\ [][P1_Next]_vars

-----------------------------------------------------------------------------
(* LVV-T960: the current relative-astrometry notebook (last updated        *)
(* 08-06-2019).                                                            *)

\* the notebook has measured sources to match
T960_Inputs == {inp \in RelInputs : Len(inp.hsc) > 0}

T960_Init == \E inp \in T960_Inputs : Fresh("LVV-T960", "low_pm") /\ RelLoaded(inp)

\* gaia_visit_df = gaia_visit_df.iloc[low_pm]
T960_LowPm ==
    /\ Running("LVV-T960", "low_pm")
    /\ gaia_visit_df' = SelectSeq(gaia_visit_df, LowPm)
    /\ pc' = "get_best_catalog_match"
    /\ UNCHANGED <<notebook, raised, hsc_sources_coords, astropy_seps, matched_df, sep_df,
                   bandVars, medianVars, current_outlier_frac_200, bestVars, afVars,
                   jobVars, T960_Unused>>

\* np.unique of the values of a list: sorted, without repeats
RECURSIVE SortedSeqOfSet(_)
SortedSeqOfSet(S) ==
    IF S = {} THEN <<>>
    ELSE LET m == CHOOSE x \in S : \A y \in S : x <= y
         IN  <<m>> \o SortedSeqOfSet(S \ {m})

\* ArgMin with a fault: the last position, whatever the values
ArgMin_last(s) == Len(s)

\* np.argmin: the first position of the least value
ArgMin(s) ==
    CHOOSE k \in DOMAIN s :
        /\ \A j \in DOMAIN s : s[k] <= s[j]
        /\ \A j \in DOMAIN s : s[j] = s[k] => k <= j

\* every row, whatever its idx (a fault)
RowsWhere_all(nn_idx, index) == SortedSeqOfSet(DOMAIN nn_idx)

\* np.where(idx == index)[0]
RowsWhere(nn_idx, index) == SortedSeqOfSet({b \in DOMAIN nn_idx : nn_idx[b] = index})

\* The loop of get_best_catalog_match over unique_idx, given the idx (nn_idx) and
\* sep2d of match_to_catalog_sky: for every matched reference index the
\* base row of least separation among the rows matched to it.
BestOf(nn_idx, sep2d) ==
    LET unique_idx == SortedSeqOfSet(Range(nn_idx))
        rows(k) == RowsWhere(nn_idx, unique_idx[k])
        seps(k) == [j \in DOMAIN rows(k) |-> sep2d[rows(k)[j]]]
    IN  [base_cat_idx |-> [k \in DOMAIN unique_idx |-> rows(k)[ArgMin(seps(k))]],
         ref_cat_idx |-> unique_idx,
         single_match_seps |-> [k \in DOMAIN unique_idx |-> seps(k)[ArgMin(seps(k))]]]

\* get_best_catalog_match(base_cat, ref_cat): every result the function can
\* return (one for every idx match_to_catalog_sky can return)
GetBestCatalogMatch(base_cat, ref_cat) ==
    {BestOf(nn_idx, [b \in DOMAIN base_cat |-> Separation(base_cat[b], ref_cat[nn_idx[b]])]) :
        nn_idx \in MatchToCatalogSky(base_cat, ref_cat)}

GaiaCoords == [i \in DOMAIN gaia_visit_df |-> gaia_visit_df[i].ra]

\* base_idx, ref_idx, matched_seps = get_best_catalog_match(hsc_sources_coords, gaia_coords)
\* astropy refuses a reference catalogue of length 0.
T960_GetBestCatalogMatch ==
    /\ Running("LVV-T960", "get_best_catalog_match")
    /\ IF Len(gaia_visit_df) = 0
       THEN /\ raised' = "ValueError"
            /\ UNCHANGED <<pc, bestVars>>
       ELSE /\ \E best \in GetBestCatalogMatch(hsc_sources_coords, GaiaCoords) :
                   /\ base_idx' = best.base_cat_idx
                   /\ ref_idx' = best.ref_cat_idx
                   /\ matched_seps' = best.single_match_seps
            /\ pc' = "matched_df"
            /\ UNCHANGED raised
    /\ UNCHANGED <<notebook, inputVars, matched_df, sep_df, bandVars, medianVars,
                   current_outlier_frac_200, afVars, jobVars, T960_Unused>>

\* one row of matched_df for every pair of zip(base_idx, ref_idx)
T960_MatchedDf ==
    /\ Running("LVV-T960", "matched_df")
    /\ matched_df' =
           [k \in DOMAIN base_idx |->
               [HSC_id |-> base_idx[k],
                HSC_ra |-> hsc_sources_coords[base_idx[k]],
                gaia_id |-> gaia_visit_df[ref_idx[k]].source_id,
                gaia_ra |-> gaia_visit_df[ref_idx[k]].ra]]
    /\ pc' = "calc_separations"
    /\ UNCHANGED <<notebook, raised, inputVars, sep_df, bandVars, medianVars,
                   current_outlier_frac_200, bestVars, afVars, jobVars, T960_Unused>>

\* visit_seps_hsc, visit_seps_gaia = calc_pairwise_separations(...); sep_df
T960_CalcSeparations ==
    /\ Running("LVV-T960", "calc_separations")
    /\ sep_df' = astropy_seps
    /\ pc' = "diff"
    /\ UNCHANGED <<notebook, raised, inputVars, matched_df, bandVars, medianVars,
                   current_outlier_frac_200, bestVars, afVars, jobVars, T960_Unused>>

T960_Diff ==
    /\ Running("LVV-T960", "diff")
    /\ sep_df' = AddDiff(sep_df)
    /\ pc' = "five_arcmin"
    /\ UNCHANGED <<notebook, raised, inputVars, matched_df, bandVars, medianVars,
                   current_outlier_frac_200, bestVars, afVars, jobVars, T960_Unused>>

T960_FiveArcmin ==
    /\ Running("LVV-T960", "five_arcmin")
    /\ five_arcmin_df' = BandQuery(sep_df, five_arcmin)
    /\ pc' = "am1"
    /\ UNCHANGED <<notebook, raised, inputVars, matched_df, sep_df, twenty_arcmin_df,
                   two_hundred_arcmin_df, medianVars, current_outlier_frac_200,
                   bestVars, afVars, jobVars, T960_Unused>>

\* median_diff_5_arcmin = np.median(np.abs(five_arcmin_df['diff']))*1000*u.mas
T960_AM1 ==
    /\ Running("LVV-T960", "am1")
    /\ median_diff_5_arcmin' = Median(AbsAll(DiffCol(five_arcmin_df)))
    /\ pc' = "af1"
    /\ UNCHANGED <<notebook, raised, inputVars, matched_df, sep_df, bandVars,
                   median_diff_20_arcmin, median_diff_200_arcmin,
                   current_outlier_frac_200, bestVars, afVars, jobVars, T960_Unused>>

\* the outlier limit of the AF metrics: 20 mas
OutlierLimit == 20

\* CountAbove with a fault: >= for >
CountAbove_ge(s, limit) == Cardinality({i \in DOMAIN s : s[i] >= limit})

\* len(np.where(values > limit)[0])
CountAbove(s, limit) == Cardinality({i \in DOMAIN s : s[i] > limit})

\* len(np.where((np.abs(df['diff'])*1000) > 20)[0]) / len(df), for len(df) > 0
OutlierFrac(df) == Rat(CountAbove(AbsAll(DiffCol(df)), OutlierLimit), Len(df))

\* outlier_frac_5_arcmin = ... / len(five_arcmin_df): a division by zero
\* when the band is empty
T960_AF1 ==
    /\ Running("LVV-T960", "af1")
    /\ IF Len(five_arcmin_df) = 0
       THEN /\ raised' = "ZeroDivisionError"
            /\ UNCHANGED <<pc, outlier_frac_5_arcmin>>
       ELSE /\ outlier_frac_5_arcmin' = OutlierFrac(five_arcmin_df)
            /\ pc' = "twenty_arcmin"
            /\ UNCHANGED raised
    /\ UNCHANGED <<notebook, inputVars, matched_df, sep_df, bandVars, medianVars,
                   current_outlier_frac_200, bestVars, outlier_frac_20_arcmin,
                   jobVars, T960_Unused>>

T960_TwentyArcmin ==
    /\ Running("LVV-T960", "twenty_arcmin")
    /\ twenty_arcmin_df' = BandQuery(sep_df, twenty_arcmin)
    /\ pc' = "am2"
    /\ UNCHANGED <<notebook, raised, inputVars, matched_df, sep_df, five_arcmin_df,
                   two_hundred_arcmin_df, medianVars, current_outlier_frac_200,
                   bestVars, afVars, jobVars, T960_Unused>>

T960_AM2 ==
    /\ Running("LVV-T960", "am2")
    /\ median_diff_20_arcmin' = Median(AbsAll(DiffCol(twenty_arcmin_df)))
    /\ pc' = "af2"
    /\ UNCHANGED <<notebook, raised, inputVars, matched_df, sep_df, bandVars,
                   median_diff_5_arcmin, median_diff_200_arcmin,
                   current_outlier_frac_200, bestVars, afVars, jobVars, T960_Unused>>

T960_AF2 ==
    /\ Running("LVV-T960", "af2")
    /\ IF Len(twenty_arcmin_df) = 0
       THEN /\ raised' = "ZeroDivisionError"
            /\ UNCHANGED <<pc, outlier_frac_20_arcmin>>
       ELSE /\ outlier_frac_20_arcmin' = OutlierFrac(twenty_arcmin_df)
            /\ pc' = "job"
            /\ UNCHANGED raised
    /\ UNCHANGED <<notebook, inputVars, matched_df, sep_df, bandVars, medianVars,
                   current_outlier_frac_200, bestVars, outlier_frac_5_arcmin,
                   jobVars, T960_Unused>>

Measurement(metric, quantity) == [metric |-> metric, quantity |-> quantity]

\* job = lsst.verify.Job(...); job.measurements.insert(am1_meas), (am2_meas),
\* (af1_meas), (af2_meas)
T960_JobInsert ==
    /\ Running("LVV-T960", "job")
    /\ job_measurements' =
           <<Measurement("relative_astrometry.AM1", median_diff_5_arcmin),
             Measurement("relative_astrometry.AM2", median_diff_20_arcmin),
             Measurement("relative_astrometry.AF1", outlier_frac_5_arcmin),
             Measurement("relative_astrometry.AF2", outlier_frac_20_arcmin)>>
    /\ pc' = "report"
    /\ UNCHANGED <<notebook, raised, inputVars, matched_df, sep_df, bandVars, medianVars,
                   current_outlier_frac_200, bestVars, afVars, job_reported,
                   job_dispatched, T960_Unused>>

\* job.report().show()
T960_Report ==
    /\ Running("LVV-T960", "report")
    /\ job_reported' = TRUE
    /\ pc' = "dispatch"
    /\ UNCHANGED <<notebook, raised, inputVars, matched_df, sep_df, bandVars, medianVars,
                   current_outlier_frac_200, bestVars, afVars, job_measurements,
                   job_dispatched, T960_Unused>>

\* job.dispatch(api_user=username, api_password=password, api_url=squash_api_url)
T960_Dispatch ==
    /\ Running("LVV-T960", "dispatch")
    /\ job_dispatched' = TRUE
    /\ pc' = "plot_af1"
    /\ UNCHANGED <<notebook, raised, inputVars, matched_df, sep_df, bandVars, medianVars,
                   current_outlier_frac_200, bestVars, afVars, job_measurements,
                   job_reported, T960_Unused>>

\* np.max
Max(s) == CHOOSE x \in Range(s) : \A y \in Range(s) : y <= x

\* the last edge of np.linspace(0, 100, 21), in mas
PlotHi == 100
\* hundredths of a mas in a mas: the appended edge is np.max(...) + 0.01
PerMas == 100

\* bins = np.append(np.linspace(0, 100, 21), np.max(values)+0.01); plt.hist(values, bins=bins)
\* np.histogram refuses edges that do not increase: the appended edge is
\* below 100 when the largest value is below 99.99 mas.
BinsDecrease(values) == PlotHi * PerMas > Max(values) * PerMas + 1

PlotCell(cell, next, values) ==
    /\ Running("LVV-T960", cell)
    /\ IF BinsDecrease(values)
       THEN raised' = "ValueError" /\ UNCHANGED pc
       ELSE pc' = next /\ UNCHANGED raised
    /\ UNCHANGED <<notebook, inputVars, matched_df, sep_df, bandVars, medianVars,
                   current_outlier_frac_200, bestVars, afVars, jobVars, T960_Unused>>

\* the cumulative histogram of af1_meas.extras['meas_errors']
T960_PlotAF1 == PlotCell("plot_af1", "plot_af2", AbsAll(DiffCol(five_arcmin_df)))

\* the cumulative histogram of af2_meas.extras['meas_errors']
T960_PlotAF2 == PlotCell("plot_af2", "two_hundred_arcmin", AbsAll(DiffCol(twenty_arcmin_df)))

T960_TwoHundredArcmin ==
    /\ Running("LVV-T960", "two_hundred_arcmin")
    /\ two_hundred_arcmin_df' = BandQuery(sep_df, two_hundred_arcmin)
    /\ pc' = "median_200"
    /\ UNCHANGED <<notebook, raised, inputVars, matched_df, sep_df, five_arcmin_df,
                   twenty_arcmin_df, medianVars, current_outlier_frac_200,
                   bestVars, afVars, jobVars, T960_Unused>>

T960_Median200 ==
    /\ Running("LVV-T960", "median_200")
    /\ median_diff_200_arcmin' = Median(AbsAll(DiffCol(two_hundred_arcmin_df)))
    /\ pc' = "hist_200"
    /\ UNCHANGED <<notebook, raised, inputVars, matched_df, sep_df, bandVars,
                   median_diff_5_arcmin, median_diff_20_arcmin,
                   current_outlier_frac_200, bestVars, afVars, jobVars, T960_Unused>>

\* bins=20 of the 200 arcmin histograms
Bins200 == 20

\* n, bins, _ = plt.hist(..., range=(0, 0.1), bins=20, cumulative=True, density=True)
\* current_outlier_frac_200 = n[np.where(bins < 0.02)[0][-1]]
T960_Hist200 ==
    /\ Running("LVV-T960", "hist_200")
    /\ current_outlier_frac_200' =
           HistFracBelow(AbsAll(DiffCol(two_hundred_arcmin_df)), Bins200)
    /\ pc' = "done"
    /\ UNCHANGED <<notebook, raised, inputVars, matched_df, sep_df, bandVars, medianVars,
                   bestVars, afVars, jobVars, T960_Unused>>

T960_Next ==
    \/ T960_LowPm \/ T960_GetBestCatalogMatch \/ T960_MatchedDf
    \/ T960_CalcSeparations \/ T960_Diff
    \/ T960_FiveArcmin \/ T960_AM1 \/ T960_AF1
    \/ T960_TwentyArcmin \/ T960_AM2 \/ T960_AF2
    \/ T960_JobInsert \/ T960_Report \/ T960_Dispatch
    \/ T960_PlotAF1 \/ T960_PlotAF2
    \/ T960_TwoHundredArcmin \/ T960_Median200 \/ T960_Hist200

SpecT960 == T960_Init /\ [][T960_Next]_vars

-----------------------------------------------------------------------------
(* LVV-T297: absolute astrometry.  Positions are [ra, dec] in mas on a     *)
(* flat patch; Init is the kernel after the catalogues are loaded.         *)

GaiaPos2 == {<<0, 0>>, <<1000, 0>>, <<2000, 0>>}

HscPos2 == {<<50, 0>>, <<0, -51>>, <<30, 40>>, <<1000, 50>>, <<2000, 9>>}

PmVals2 == {<<0, 0>>, <<7, 0>>}

GaiaCatalogs2 ==
    {[i \in DOMAIN g |-> [source_id |-> i, ra |-> g[i][1][1], dec |-> g[i][1][2],
                          pmra |-> g[i][2][1], pmdec |-> g[i][2][2]]] :
        g \in {q \in SeqsUpTo(GaiaPos2 \X PmVals2, MaxGaia) :
                   Injective([i \in DOMAIN q |-> q[i][1]])}}

HscCatalogs2 ==
    {[i \in DOMAIN h |-> [ra |-> h[i][1], dec |-> h[i][2]]] : h \in {q \in SeqsUpTo(HscPos2, MaxHsc) : Injective(q)}}

T297_Init ==
    \E g \in GaiaCatalogs2, h \in HscCatalogs2 :
        /\ Fresh("LVV-T297", "match")
        /\ gaia_visit_df = g
        /\ hsc_sources_coords = h
        /\ astropy_seps = <<>>
        /\ deep_coords = <<>>
        /\ u_deep_coords = <<>>
        /\ Absent

\* the square of the separation of two positions of a flat patch: it orders
\* the sources as the separation does
Separation2(a, b) == (a.ra - b.ra) * (a.ra - b.ra) + (a.dec - b.dec) * (a.dec - b.dec)

NearestIdx2(pos, catalog) ==
    {k \in DOMAIN catalog :
        \A j \in DOMAIN catalog : Separation2(pos, catalog[k]) <= Separation2(pos, catalog[j])}

MatchToCatalogSky2(coords, catalog) ==
    {m \in [DOMAIN coords -> DOMAIN catalog] :
        \A i \in DOMAIN coords : m[i] \in NearestIdx2(coords[i], catalog)}

\* idx, sep2d, sep3d = gaia_coords.match_to_catalog_sky(hsc_sources_coords)
T297_Match ==
    /\ Running("LVV-T297", "match")
    /\ IF Len(hsc_sources_coords) = 0
       THEN /\ raised' = "ValueError"
            /\ UNCHANGED <<pc, idx>>
       ELSE /\ idx' \in MatchToCatalogSky2(gaia_visit_df, hsc_sources_coords)
            /\ pc' = "sep"
            /\ UNCHANGED raised
    /\ UNCHANGED <<notebook, gaia_visit_df, hsc_sources_coords, sep_ra, sep_dec,
                   ra_median_sep, dec_median_sep, T297_Unused>>

\* sep_ra = gaia_coords.ra.arcsec - hsc_sources_coords.ra.arcsec[idx], the
\* same for dec, and the medians of their absolute values
T297_Sep ==
    /\ Running("LVV-T297", "sep")
    /\ LET ra == [i \in DOMAIN gaia_visit_df |->
                     gaia_visit_df[i].ra - hsc_sources_coords[idx[i]].ra]
           dec == [i \in DOMAIN gaia_visit_df |->
                     gaia_visit_df[i].dec - hsc_sources_coords[idx[i]].dec]
       IN  /\ sep_ra' = ra
           /\ sep_dec' = dec
           /\ ra_median_sep' = Median(AbsAll(ra))
           /\ dec_median_sep' = Median(AbsAll(dec))
    /\ pc' = "check_ra"
    /\ UNCHANGED <<notebook, raised, gaia_visit_df, hsc_sources_coords, idx, T297_Unused>>

\* the requirement of the checks: 50 mas
AbsLimit == 50

\* value*1000. > limit
Exceeds(x, limit) == RatGT(x, limit)

\* if ra_median_sep*1000. > 50: raise RequirementFailure(...)
T297_CheckRa ==
    /\ Running("LVV-T297", "check_ra")
    /\ IF Exceeds(ra_median_sep, AbsLimit)
       THEN raised' = "RequirementFailure" /\ UNCHANGED pc
       ELSE pc' = "check_dec" /\ UNCHANGED raised
    /\ UNCHANGED <<notebook, gaia_visit_df, hsc_sources_coords, absVars, T297_Unused>>

\* if dec_median_sep*1000. > 50: raise RequirementFailure(...)
T297_CheckDec ==
    /\ Running("LVV-T297", "check_dec")
    /\ IF Exceeds(dec_median_sep, AbsLimit)
       THEN raised' = "RequirementFailure" /\ UNCHANGED pc
       ELSE pc' = "done" /\ UNCHANGED raised
    /\ UNCHANGED <<notebook, gaia_visit_df, hsc_sources_coords, absVars, T297_Unused>>

T297_Next == T297_Match \/ T297_Sep \/ T297_CheckRa \/ T297_CheckDec

SpecT297 == T297_Init /\ [][T297_Next]_vars

-----------------------------------------------------------------------------
(* LVV-T1068: false detections of the deep coadd.  Positions are points of *)
(* a line in tenths of an arcsecond.                                       *)

DeepPos == {0, 3, 5, 7, 12}

UDeepPos == {0, 6, 20}

T1068_Init ==
    \E d \in SeqsUpTo(DeepPos, MaxDeep), ud \in SeqsUpTo(UDeepPos, MaxUDeep) :
        /\ Injective(d) /\ Injective(ud)
        /\ Fresh("LVV-T1068", "match")
        /\ deep_coords = d
        /\ u_deep_coords = ud
        /\ gaia_visit_df = <<>>
        /\ hsc_sources_coords = <<>>
        /\ astropy_seps = <<>>
        /\ Absent

\* max_sep = 0.5*u.arcsec
max_sep == 5

\* the mark of a rejected match
Rejected == -99

\* OutsideMaxSep with a fault: >= for >
OutsideMaxSep_ge(d) == d >= max_sep

\* d2d > max_sep
OutsideMaxSep(d) == d > max_sep

\* matched_idx, d2d, d3d = deep_coords.match_to_catalog_sky(u_deep_coords)
\* matched_idx[np.where(d2d > max_sep)] = -99
T1068_Match ==
    /\ Running("LVV-T1068", "match")
    /\ IF Len(u_deep_coords) = 0
       THEN /\ raised' = "ValueError"
            /\ UNCHANGED <<pc, matched_idx, d2d>>
       ELSE /\ \E m \in MatchToCatalogSky(deep_coords, u_deep_coords) :
                   LET d == [i \in DOMAIN deep_coords |->
                                Separation(deep_coords[i], u_deep_coords[m[i]])]
                   IN  /\ d2d' = d
                       /\ matched_idx' = [i \in DOMAIN deep_coords |->
                                             IF OutsideMaxSep(d[i]) THEN Rejected ELSE m[i]]
            /\ pc' = "duplicates"
            /\ UNCHANGED raised
    /\ UNCHANGED <<notebook, deepInVars, found_objects_idx, unmatched_idx,
                   false_positive_frac, T1068_Unused>>

\* the values of matched_idx that the loop treats: not -99 and counted more
\* than once
DuplicatedMatches(m) ==
    {v \in Range(m) : v # Rejected /\ Cardinality({i \in DOMAIN m : m[i] = v}) > 1}

\* any of the deep rows matched to v, whatever its distance (a fault)
FirstBySeparation_any(m, d, v) == {i \in DOMAIN m : m[i] = v}

\* np.argsort(duplicate_distances)[0] for the deep rows matched to v: a row
\* of least distance; the order of equal distances is that of the sort
FirstBySeparation(m, d, v) ==
    {i \in DOMAIN m : m[i] = v /\ \A j \in DOMAIN m : m[j] = v => d[i] <= d[j]}

\* The loop over zip(unique_idx, idx_counts): for every duplicated match all
\* rows but the first by separation are set to -99.
T1068_Duplicates ==
    /\ Running("LVV-T1068", "duplicates")
    /\ \E keep \in [DuplicatedMatches(matched_idx) -> DOMAIN matched_idx] :
           /\ \A v \in DuplicatedMatches(matched_idx) :
                  keep[v] \in FirstBySeparation(matched_idx, d2d, v)
           /\ matched_idx' =
                  [i \in DOMAIN matched_idx |->
                      IF /\ matched_idx[i] \in DuplicatedMatches(matched_idx)
                         /\ keep[matched_idx[i]] # i
                      THEN Rejected ELSE matched_idx[i]]
    /\ pc' = "found"
    /\ UNCHANGED <<notebook, raised, deepInVars, deepVars, T1068_Unused>>

\* The value numpy holds for an entry of matched_idx: the ultra-deep sources
\* are counted from 0 there and from 1 here; -99 is itself.
PyValue(v) == IF v = Rejected THEN Rejected ELSE v - 1

\* IsFound with a fault: > 0 for > -1
IsFound_positive(v) == PyValue(v) > 0

\* matched_idx > -1
IsFound(v) == PyValue(v) > -1

\* matched_idx < -1
IsUnmatched(v) == PyValue(v) < -1

\* found_objects_idx = np.where(matched_idx > -1)[0]
\* unmatched_idx = np.where(matched_idx < -1)[0]
T1068_Found ==
    /\ Running("LVV-T1068", "found")
    /\ found_objects_idx' = {i \in DOMAIN matched_idx : IsFound(matched_idx[i])}
    /\ unmatched_idx' = {i \in DOMAIN matched_idx : IsUnmatched(matched_idx[i])}
    /\ pc' = "false_positive_frac"
    /\ UNCHANGED <<notebook, raised, deepInVars, matched_idx, d2d, false_positive_frac,
                   T1068_Unused>>

\* false_positive_frac = 1. - len(found_objects_idx)/len(deep_coords): a
\* division by zero when the deep catalogue is empty
T1068_FalsePositiveFrac ==
    /\ Running("LVV-T1068", "false_positive_frac")
    /\ IF Len(deep_coords) = 0
       THEN /\ raised' = "ZeroDivisionError"
            /\ UNCHANGED <<pc, false_positive_frac>>
       ELSE /\ false_positive_frac' =
                   Rat(Len(deep_coords) - Cardinality(found_objects_idx), Len(deep_coords))
            /\ pc' = "done"
            /\ UNCHANGED raised
    /\ UNCHANGED <<notebook, deepInVars, matched_idx, d2d, found_objects_idx,
                   unmatched_idx, T1068_Unused>>

T1068_Next ==
    T1068_Match \/ T1068_Duplicates \/ T1068_Found \/ T1068_FalsePositiveFrac

SpecT1068 == T1068_Init /\ [][T1068_Next]_vars

-----------------------------------------------------------------------------
(* LVV-T1068: reading the patches of test_tract.  Positions are points of *)
(* a line in hundredths of a degree.                                       *)

\* ud_1_center and ud_2_center: the fields are about 115 degrees apart
ud_1_center == 0
ud_2_center == 11500

\* positions of deep sources: 0.4, 0.6, 0.75 and 0.76 degrees from the
\* centre of the first field, 0.6 degrees from that of the second
DeepFieldPos == {40, 60, 75, 76, 11560}

\* the ultra-deep sources of a patch: none, or a first source in one of
\* the fields
UDeepPatchVals == {<<>>, <<10>>, <<11510>>}

\* the deep sources of a patch, up to order
DeepPatchVals ==
    {s \in SeqsUpTo(DeepFieldPos, Cardinality(DeepFieldPos)) :
        \A i \in 1..(Len(s) - 1) : s[i] < s[i + 1]}

PatchVals == {[deep |-> d, u_deep |-> ud] : d \in DeepPatchVals, ud \in UDeepPatchVals}

\* the tract has patches (it is the one with most of them)
T1068_LoadInit ==
    \E ps \in SeqsUpTo(PatchVals, MaxPatches) :
        /\ Len(ps) > 0
        /\ Fresh("LVV-T1068", "patches")
        /\ patches = ps
        /\ NoInter
        /\ gaia_visit_df = <<>>
        /\ hsc_sources_coords = <<>>
        /\ astropy_seps = <<>>
        /\ deep_coords = <<>>
        /\ u_deep_coords = <<>>

\* u_deep_sample[0].separation(ud_1_center) < 2*u.deg
FieldRadius == 200

\* deep_sep <= 0.75*u.deg
KeepRadius == 75

CenterPos(center) == IF center = "ud_1" THEN ud_1_center ELSE ud_2_center

\* deep_keep = np.where(deep_sep <= 0.75*u.deg): the deep sources kept
DeepKeep(deep, center) ==
    SelectSeq(deep, LAMBDA x : Separation(x, CenterPos(center)) <= KeepRadius)

\* pd.concat of a frame that is None (<<>>) or <<rows>> with new rows
Concat(df, rows) == IF df = <<>> THEN <<rows>> ELSE <<df[1] \o rows>>

\* One pass of "for test_patch_idx in range(len(overlap_patches[test_tract]))":
\* the first pass picks ud_center from the first ultra-deep source (an
\* IndexError when the patch has none); every pass keeps the deep sources
\* within 0.75 degrees of ud_center.
T1068_LoadPatch ==
    /\ Running("LVV-T1068", "patches")
    /\ LET patch == patches[test_patch_idx + 1]
           center == IF u_deep_src_df # <<>> THEN ud_center
                     ELSE IF Separation(patch.u_deep[1], ud_1_center) < FieldRadius
                          THEN "ud_1" ELSE "ud_2"
       IN  /\ u_deep_src_df' = Concat(u_deep_src_df, patch.u_deep)
           /\ IF u_deep_src_df = <<>> /\ patch.u_deep = <<>>
              THEN /\ raised' = "IndexError"
                   /\ UNCHANGED <<pc, test_patch_idx, deep_src_df, ud_center>>
              ELSE /\ ud_center' = center
                   /\ deep_src_df' = Concat(deep_src_df, DeepKeep(patch.deep, center))
                   /\ test_patch_idx' = test_patch_idx + 1
                   /\ pc' = IF test_patch_idx + 1 = Len(patches) THEN "loaded" ELSE "patches"
                   /\ UNCHANGED raised
    /\ UNCHANGED <<notebook, patches, T1068Load_Unused>>

T1068_LoadNext == T1068_LoadPatch

SpecT1068Load == T1068_LoadInit /\ [][T1068_LoadNext]_vars

-----------------------------------------------------------------------------
(* LVV-T959 (the second half of LVV-T297.ipynb): the separations of pairs   *)
(* of objects in a test band against the r band.  sep_differences, in mas,  *)
(* is what the notebook computes for its 44850 pairs; the statistics do not *)
(* depend on the order of the pairs, so it is drawn up to order.            *)

InterDiffVals == {0, -5, 15, 20, 21, 35}

InterDiffs ==
    {s \in SeqsUpTo(InterDiffVals, MaxInterPairs) :
        /\ Len(s) > 0
        /\ \A i \in 1..(Len(s) - 1) : Abs(s[i]) <= Abs(s[i + 1])}

T959_Init ==
    \E s \in InterDiffs, f \in BOOLEAN :
        /\ Fresh("LVV-T959", "rms")
        /\ sep_differences = s
        /\ fail_in_notebook_cell = f
        /\ NoPatches
        /\ gaia_visit_df = <<>>
        /\ hsc_sources_coords = <<>>
        /\ astropy_seps = <<>>
        /\ deep_coords = <<>>
        /\ u_deep_coords = <<>>

T959_Step(cell, next) ==
    /\ Running("LVV-T959", cell)
    /\ pc' = next
    /\ UNCHANGED <<notebook, raised, sep_differences, fail_in_notebook_cell, T959_Unused>>

RECURSIVE SumSquares(_)
SumSquares(s) == IF s = <<>> THEN 0 ELSE s[1] * s[1] + SumSquares(Tail(s))

\* np.mean(np.square(s)); the root of it is taken when it is compared
MeanSquare(s) == Rat(SumSquares(s), Len(s))

\* rms_diff = np.sqrt(np.mean(np.square(sep_differences)))
T959_Rms ==
    /\ T959_Step("rms", "hist")
    /\ rms_diff' = MeanSquare(sep_differences)
    /\ UNCHANGED <<current_outlier_frac, fail_in_notebook, stdout, errorVars>>

\* the step of np.arange(0., max, 0.01), in mas
BinWidth == 10

\* np.arange(0., hi, 0.01): the multiples of the step below hi, hi excluded
ArangeEdges(hi) == [i \in 1..((hi + BinWidth - 1) \div BinWidth) |-> (i - 1) * BinWidth]

\* n, bins, _ = plt.hist(np.abs(sep_differences),
\*                       bins=np.arange(0., np.max(np.abs(sep_differences)), 0.01),
\*                       cumulative=True, density=True)
\* current_outlier_frac = n[np.where(bins < 0.02)[0][-1]]
\* With fewer than two edges there is no bin: the cell raises in the
\* library or at the indexing.  With edges that are all below 0.02 the
\* index is that of the last edge, one past the end of n.
T959_Hist ==
    /\ Running("LVV-T959", "hist")
    /\ LET s == AbsAll(sep_differences)
           bins == ArangeEdges(Max(s))
       IN  IF Len(bins) < 2
           THEN /\ raised' \in {"ValueError", "IndexError"}
                /\ UNCHANGED <<pc, current_outlier_frac>>
           ELSE LET n == CumulativeDensity(s, bins)
                    k == LastEdgeBelow(bins, HistThreshold)
                IN  IF k > Len(n)
                    THEN /\ raised' = "IndexError"
                         /\ UNCHANGED <<pc, current_outlier_frac>>
                    ELSE /\ current_outlier_frac' = n[k]
                         /\ pc' = "error_setup"
                         /\ UNCHANGED raised
    /\ UNCHANGED <<notebook, sep_differences, fail_in_notebook_cell, rms_diff,
                   fail_in_notebook, stdout, errorVars, T959_Unused>>

\* error_msg = ""; error_present = False; error_val = 0
T959_ErrorSetup ==
    /\ T959_Step("error_setup", "check_rms")
    /\ error_msg' = <<>>
    /\ error_present' = FALSE
    /\ error_val' = 0
    /\ UNCHANGED <<rms_diff, current_outlier_frac, fail_in_notebook, stdout>>

\* rms_diff*1000. > 10.
RmsLimit == 10

\* sqrt(x) > k of a mean of squares x: False when x is nan
RootGT(x, k) == x.den > 0 /\ x.num > k * k * x.den

T959_CheckRms ==
    /\ T959_Step("check_rms", "check_outlier")
    /\ IF RootGT(rms_diff, RmsLimit) THEN RecordError("rms") ELSE UNCHANGED errorVars
    /\ UNCHANGED <<rms_diff, current_outlier_frac, fail_in_notebook, stdout>>

\* if (1.-current_outlier_frac)*100 > 10.
T959_CheckOutlier ==
    /\ T959_Step("check_outlier", "fail_in_notebook")
    /\ IF OneMinusPctGT(current_outlier_frac, OutlierPctLimit)
       THEN RecordError("outlier")
       ELSE UNCHANGED errorVars
    /\ UNCHANGED <<rms_diff, current_outlier_frac, fail_in_notebook, stdout>>

\* fail_in_notebook = False, or True when the reader sets it
T959_FailInNotebook ==
    /\ T959_Step("fail_in_notebook", "report")
    /\ fail_in_notebook' = fail_in_notebook_cell
    /\ UNCHANGED <<rms_diff, current_outlier_frac, stdout, errorVars>>

\* the cell raises whatever fail_in_notebook is (a fault)
MustRaise_always(fail, present) == present

\* "if fail_in_notebook is True: if error_present is True": the cell raises
MustRaise(fail, present) == fail /\ present

\* "else: if error_present is True": the cell prints
MustPrint(fail, present) == ~fail /\ present

\* if fail_in_notebook is True:
\*     if error_present is True:
\*         error_msg = str('%i Total Errors: \n' % error_val + error_msg)
\*         raise RequirementFailure(error_msg)
\* else:
\*     if error_present is True: print(str(error_msg))
T959_Report ==
    /\ Running("LVV-T959", "report")
    /\ IF MustRaise(fail_in_notebook, error_present)
       THEN /\ error_msg' = <<"total">> \o error_msg
            /\ raised' = "RequirementFailure"
            /\ UNCHANGED <<pc, stdout>>
       ELSE /\ stdout' = IF MustPrint(fail_in_notebook, error_present) THEN error_msg ELSE <<>>
            /\ pc' = "done"
            /\ UNCHANGED <<raised, error_msg>>
    /\ UNCHANGED <<notebook, sep_differences, fail_in_notebook_cell, rms_diff,
                   current_outlier_frac, fail_in_notebook, error_present, error_val,
                   T959_Unused>>

T959_Next ==
    \/ T959_Rms \/ T959_Hist \/ T959_ErrorSetup \/ T959_CheckRms \/ T959_CheckOutlier
    \/ T959_FailInNotebook \/ T959_Report

SpecT959 == T959_Init /\ [][T959_Next]_vars

-----------------------------------------------------------------------------
(* The choice of the pairs (LVV-T960, and alike in LVV-T959 and the        *)
(* unnamed notebooks): a sample of use_objects rows of matched_df and all  *)
(* its pairs.  The rows are numbered from 0 as numpy does.                 *)

\* a matched_df of n rows
MatchedRows(n) ==
    [k \in 1..n |-> [HSC_id |-> k, HSC_ra |-> k, gaia_id |-> k, gaia_ra |-> k]]

Pairs_Init ==
    \E n \in 0..MaxObjects :
        /\ FreshBut("LVV-T960", "num_unique_objects")
        /\ matched_df = MatchedRows(n)
        /\ Absent
        /\ gaia_visit_df = <<>>
        /\ hsc_sources_coords = <<>>
        /\ astropy_seps = <<>>
        /\ deep_coords = <<>>
        /\ u_deep_coords = <<>>

Pairs_Unused == <<inputVars, matchVars, sep_df, bandVars, medianVars, histVars, errorVars,
                  bestVars, afVars, jobVars, absVars, deepInVars, deepVars, loadVars,
                  interVars>>

\* num_unique_objects = len(matched_df)
T960_NumUniqueObjects ==
    /\ Running("LVV-T960", "num_unique_objects")
    /\ num_unique_objects' = Len(matched_df)
    /\ pc' = "pairs_list"
    /\ UNCHANGED <<notebook, raised, sample, pairs_list, Pairs_Unused>>

use_objects == UseObjects

\* rand_state.choice(np.arange(n), size=k, replace=False): k different
\* values of 0..n-1 in some order
Choices(n, k) == {s \in [1..k -> 0..(n - 1)] : Injective(s)}

\* itertools.combinations_with_replacement(s, 2)
RECURSIVE Combinations_with_replacement(_)
Combinations_with_replacement(s) ==
    IF s = <<>> THEN <<>>
    ELSE [k \in 1..Len(s) |-> <<s[1], s[k]>>] \o Combinations_with_replacement(Tail(s))

\* itertools.combinations(s, 2): the pairs <<s[i], s[j]>> with i < j, in
\* the order of i and then of j
RECURSIVE Combinations(_)
Combinations(s) ==
    IF s = <<>> THEN <<>>
    ELSE [k \in 1..(Len(s) - 1) |-> <<s[1], s[k + 1]>>] \o Combinations(Tail(s))

\* pairs_list = list(combinations(rand_state.choice(np.arange(num_unique_objects),
\*                                                  size=use_objects, replace=False), 2))
\* choice raises ValueError for a sample larger than the population
T960_PairsList ==
    /\ Running("LVV-T960", "pairs_list")
    /\ IF num_unique_objects < use_objects
       THEN /\ raised' = "ValueError"
            /\ UNCHANGED <<pc, sample, pairs_list>>
       ELSE /\ sample' \in Choices(num_unique_objects, use_objects)
            /\ pairs_list' = Combinations(sample')
            /\ pc' = "pairs_done"
            /\ UNCHANGED raised
    /\ UNCHANGED <<notebook, num_unique_objects, Pairs_Unused>>

Pairs_Next == T960_NumUniqueObjects \/ T960_PairsList

SpecPairs == Pairs_Init /\ [][Pairs_Next]_vars

-----------------------------------------------------------------------------
(* All notebooks.                                                          *)

Init == P1_Init \/ T960_Init \/ T297_Init \/ T1068_Init \/ T1068_LoadInit \/ T959_Init \/ Pairs_Init

Next == P1_Next \/ T960_Next \/ T297_Next \/ T1068_Next \/ T1068_LoadNext \/ T959_Next \/ Pairs_Next

Spec == Init /\ [][Next]_vars

-----------------------------------------------------------------------------
(* Properties.                                                             *)

\* 1. - x of a float x
OneMinus(x) == Rat(x.den - x.num, x.den)

\* the cells of part_001 after the ~200 arcmin histogram
P1_AfterHist200 ==
    {"error_setup", "check_median_5", "check_outlier_5", "check_median_20",
     "check_outlier_20", "check_median_200", "check_outlier_200", "raise", "done"}

\* the cells of part_001 after the ~200 arcmin median check
P1_AfterCheckMedian200 == {"check_outlier_200", "raise", "done"}

\* requirement 5 of part_001: the median error at ~200 arcmin is <= 15 mas
MedianLimit200 == 15

\* requirement 6 of part_001: outliers at ~200 arcmin are errors above 30 mas
OutlierLimit200 == 30

\* C1, as stated: once the ~200 arcminute median check of part_001 has run,
\* a failure of that check is recorded exactly when the median of
\* |sep_gaia - sep_hsc| over the band is defined and greater than 15 mas (so
\* a median in (10, 15] mas records none).
C1_Median200FailsAbove15 ==
    (notebook = "part_001" /\ pc \in P1_AfterCheckMedian200) =>
        (("median_200" \in Range(error_msg))
            <=> RatGT(median_diff_200_arcmin, MedianLimit200))

\* C2, as stated: in part_001 and in LVV-T960, once the ~200 arcminute
\* histogram has run over a non-empty band whose errors all lie in the range
\* of the histogram, the outlier fraction 1 - current_outlier_frac_200 is the
\* fraction of the pairs of the band whose absolute error is above 30 mas
\* (stated for bands with no error of exactly 20 mas, the edge of a bin).
C2_OutlierFrac200Above30 ==
    LET errors == AbsAll(DiffCol(two_hundred_arcmin_df))
    IN  (/\ \/ notebook = "part_001" /\ pc \in P1_AfterHist200
            \/ notebook = "LVV-T960" /\ pc = "done"
         /\ Len(errors) > 0
         /\ \A i \in DOMAIN errors : errors[i] <= HistHi /\ errors[i] # HistThreshold)
        => RatEq(OneMinus(current_outlier_frac_200),
                 Cardinality({i \in DOMAIN errors : errors[i] > OutlierLimit200}),
                 Len(errors))

\* the cells of part_001 after the ~5 arcmin histogram
P1_AfterHist5 ==
    {"twenty_arcmin", "median_20", "hist_20", "two_hundred_arcmin", "median_200",
     "hist_200"} \cup P1_AfterHist200

\* C3, as stated: once the ~5 arcminute histogram of part_001 has run over a
\* non-empty band, the outlier fraction 1 - current_outlier_frac_5 that is
\* tested against 10% is the number of pairs of the band with an absolute
\* error above 20 mas over the number of all pairs of the band, errors
\* above 100 mas included (stated for bands with no error of exactly 20 mas,
\* the edge of a bin).
C3_HistOutlierFracCountsAllPairs ==
    LET errors == AbsAll(DiffCol(five_arcmin_df))
    IN  (/\ notebook = "part_001" /\ pc \in P1_AfterHist5
         /\ Len(errors) > 0
         /\ \A i \in DOMAIN errors : errors[i] # HistThreshold)
        => RatEq(OneMinus(current_outlier_frac_5),
                 Cardinality({i \in DOMAIN errors : errors[i] > HistThreshold}),
                 Len(errors))

\* the cells of LVV-T960 after the call of get_best_catalog_match
T960_AfterBest ==
    {"matched_df", "calc_separations", "diff", "five_arcmin", "am1", "af1",
     "twenty_arcmin", "am2", "af2", "job", "report", "dispatch", "plot_af1",
     "plot_af2", "two_hundred_arcmin", "median_200", "hist_200", "done"}

\* the separation of base object b and reference object r of LVV-T960
BaseRefSep(b, r) == Separation(hsc_sources_coords[b], GaiaCoords[r])

\* r is the only nearest reference object of base object b
OnlyNearestRef(b, r) ==
    \A r2 \in DOMAIN GaiaCoords : r2 # r => BaseRefSep(b, r) < BaseRefSep(b, r2)

\* C4, as stated: every pair (b, r) that get_best_catalog_match returns is
\* mutually best: r is a nearest reference object to b, and b is a nearest
\* base object to r among all base objects.
C4_MutuallyBest ==
    (notebook = "LVV-T960" /\ pc \in T960_AfterBest) =>
        \A k \in DOMAIN base_idx :
            /\ \A r2 \in DOMAIN GaiaCoords :
                   BaseRefSep(base_idx[k], ref_idx[k]) <= BaseRefSep(base_idx[k], r2)
            /\ \A b2 \in DOMAIN hsc_sources_coords :
                   BaseRefSep(base_idx[k], ref_idx[k]) <= BaseRefSep(b2, ref_idx[k])

\* C4, amended: get_best_catalog_match returns one pair (b, r) for every
\* reference object that match_to_catalog_sky gave to some base object, and
\* at least for every reference object that is the only nearest one of a
\* base object; r is a nearest reference object to b, the separation
\* returned is theirs, and b is as near to r as every base object whose
\* only nearest reference object is r.  No reference object and no base
\* object is in two pairs.
C4_BestAmongBasesOfTheReference ==
    (notebook = "LVV-T960" /\ pc \in T960_AfterBest) =>
        /\ Len(base_idx) = Len(ref_idx) /\ Len(matched_seps) = Len(ref_idx)
        /\ \A k \in DOMAIN base_idx :
            /\ base_idx[k] \in DOMAIN hsc_sources_coords
            /\ ref_idx[k] \in DOMAIN GaiaCoords
            /\ matched_seps[k] = BaseRefSep(base_idx[k], ref_idx[k])
            /\ \A r2 \in DOMAIN GaiaCoords :
                   BaseRefSep(base_idx[k], ref_idx[k]) <= BaseRefSep(base_idx[k], r2)
            /\ \A b2 \in DOMAIN hsc_sources_coords :
                   OnlyNearestRef(b2, ref_idx[k]) =>
                       BaseRefSep(base_idx[k], ref_idx[k]) <= BaseRefSep(b2, ref_idx[k])
        /\ \A k, l \in DOMAIN base_idx :
               k # l => ref_idx[k] # ref_idx[l] /\ base_idx[k] # base_idx[l]
        /\ \A b \in DOMAIN hsc_sources_coords, r \in DOMAIN GaiaCoords :
               OnlyNearestRef(b, r) => r \in Range(ref_idx)

\* C4, the case: a pair was returned although another base object, whose
\* own nearest reference object is another one, is nearer to its reference
\* object.
C4_Witness ==
    /\ notebook = "LVV-T960" /\ pc = "matched_df"
    /\ \E k \in DOMAIN base_idx, b2 \in DOMAIN hsc_sources_coords :
           BaseRefSep(b2, ref_idx[k]) < BaseRefSep(base_idx[k], ref_idx[k])

\* C5, as stated: the matches of part_001 (matched_df) and of LVV-T297 (idx)
\* are one-to-one: no HSC source is paired with two Gaia sources.
C5_MatchesOneToOne ==
    /\ notebook = "part_001" =>
           \A i, j \in DOMAIN matched_df :
               matched_df[i].HSC_id = matched_df[j].HSC_id => i = j
    /\ notebook = "LVV-T297" =>
           \A i, j \in DOMAIN idx : idx[i] = idx[j] => i = j

\* x < k for a float x and an integer k: False when x is nan.
RatLT(x, k) == x.den > 0 /\ x.num < k * x.den

\* C6, as stated: when the medians are defined, LVV-T297 runs to completion
\* without raising RequirementFailure exactly when the RA median and the dec
\* median of the absolute offsets are both less than 50 mas (a median of
\* exactly 50 mas raises).
C6_CompletesIffBothBelow50 ==
    (/\ notebook = "LVV-T297"
     /\ pc = "done" \/ raised = "RequirementFailure"
     /\ ~IsNaN(ra_median_sep) /\ ~IsNaN(dec_median_sep))
    => ((pc = "done") <=>
            (RatLT(ra_median_sep, AbsLimit) /\ RatLT(dec_median_sep, AbsLimit)))

\* C7, as stated: every Gaia source that LVV-T297 has cross-matched passed
\* the proper-motion cut |pmra| < 5 and |pmdec| < 5 mas/yr.
C7_OnlyLowProperMotionMatched ==
    notebook = "LVV-T297" =>
        \A i \in DOMAIN idx : LowPm(gaia_visit_df[i])

\* the requirements LVV-T960 states
NumRequirements == 6

\* C8, as stated: when the job of LVV-T960 is reported or dispatched it
\* holds a measurement for each of the six requirements: besides AM1, AF1,
\* AM2 and AF2, a median and an outlier fraction of the ~200 arcminute band.
C8_JobHoldsSixMeasurements ==
    (notebook = "LVV-T960" /\ (job_reported \/ job_dispatched)) =>
        Cardinality({job_measurements[i].metric : i \in DOMAIN job_measurements})
            = NumRequirements

\* v is the k-th smallest value of s
IsKth(s, k, v) ==
    /\ v \in Range(s)
    /\ Cardinality({i \in DOMAIN s : s[i] < v}) < k
    /\ k <= Cardinality({i \in DOMAIN s : s[i] <= v})

\* x is the median of the non-empty s: the middle value, or the mean of the
\* two middle values
IsMedianOf(x, s) ==
    LET n == Len(s)
    IN  /\ n > 0 /\ x.den > 0
        /\ IF n % 2 = 1
           THEN \E v \in Range(s) :
                    IsKth(s, (n + 1) \div 2, v) /\ x.num = v * x.den
           ELSE \E lo, hi \in Range(s) :
                    /\ IsKth(s, n \div 2, lo) /\ IsKth(s, n \div 2 + 1, hi)
                    /\ 2 * x.num = (lo + hi) * x.den

\* f is the fraction of the values of the non-empty s strictly above 20 mas
IsFracAbove20(f, s) ==
    /\ Len(s) > 0 /\ f.den > 0
    /\ f.num * Len(s) = Cardinality({i \in DOMAIN s : s[i] > 20}) * f.den
    /\ 0 <= f.num /\ f.num <= f.den

\* the cells of LVV-T960 after AF2, and after AF1
T960_AfterAF2 ==
    {"job", "report", "dispatch", "plot_af1", "plot_af2", "two_hundred_arcmin",
     "median_200", "hist_200", "done"}

T960_AfterAF1 == {"twenty_arcmin", "am2", "af2"} \cup T960_AfterAF2

\* C9: in LVV-T960, once AF1 (AF2) is computed the 5 (20) arcminute band is
\* not empty, AM1 (AM2) is the median of |sep_gaia - sep_hsc| over the pairs
\* of the band and AF1 (AF2) is the number of its pairs with
\* |sep_gaia - sep_hsc| strictly above 20 mas over the number of its pairs,
\* so 0 <= AF <= 1 and a pair at exactly 20 mas is no outlier.
C9_AMAndAFOfTheBands ==
    notebook = "LVV-T960" =>
        /\ pc \in T960_AfterAF1 =>
               /\ IsMedianOf(median_diff_5_arcmin, AbsAll(DiffCol(five_arcmin_df)))
               /\ IsFracAbove20(outlier_frac_5_arcmin, AbsAll(DiffCol(five_arcmin_df)))
        /\ pc \in T960_AfterAF2 =>
               /\ IsMedianOf(median_diff_20_arcmin, AbsAll(DiffCol(twenty_arcmin_df)))
               /\ IsFracAbove20(outlier_frac_20_arcmin, AbsAll(DiffCol(twenty_arcmin_df)))
        /\ \A i \in DOMAIN job_measurements :
               job_measurements[i].quantity =
                   CASE job_measurements[i].metric = "relative_astrometry.AM1" ->
                            median_diff_5_arcmin
                     [] job_measurements[i].metric = "relative_astrometry.AM2" ->
                            median_diff_20_arcmin
                     [] job_measurements[i].metric = "relative_astrometry.AF1" ->
                            outlier_frac_5_arcmin
                     [] OTHER -> outlier_frac_20_arcmin

\* C9, the case: AF1 and AF2 are computed, the 5 arcminute band holds a pair
\* at exactly 20 mas and a pair above it, and AF1 counts only the latter.
C9_Witness ==
    /\ notebook = "LVV-T960" /\ pc = "job"
    /\ \E i, j \in DOMAIN five_arcmin_df :
           Abs(five_arcmin_df[i].diff) = 20 /\ Abs(five_arcmin_df[j].diff) > 20
    /\ RatEq(outlier_frac_5_arcmin, 1, 2)
    /\ RatEq(median_diff_5_arcmin, 45, 2)

\* the cells of LVV-T1068 after found_objects_idx and unmatched_idx are set
T1068_AfterFound == {"false_positive_frac", "done"}

\* the separation of deep source i and ultra-deep source u
DeepSep(i, u) == Separation(deep_coords[i], u_deep_coords[u])

\* an ultra-deep source lies within the maximum separation of deep source i
HasCounterpart(i) == \E u \in DOMAIN u_deep_coords : DeepSep(i, u) <= max_sep

\* C10, as stated: a deep source is unmatched (a false detection) exactly
\* when no ultra-deep source lies within 0.5 arcsec of it; a deep source
\* whose nearest ultra-deep source is within 0.5 arcsec is matched.
C10_UnmatchedIffNoCounterpart ==
    (notebook = "LVV-T1068" /\ pc \in T1068_AfterFound) =>
        \A i \in DOMAIN deep_coords :
            /\ i \in unmatched_idx <=> ~HasCounterpart(i)
            /\ i \in found_objects_idx <=> HasCounterpart(i)

\* C10, amended: every deep source is either matched or unmatched.  A deep
\* source with no ultra-deep source within 0.5 arcsec is unmatched.  A
\* matched deep source is matched to a nearest ultra-deep source, within
\* 0.5 arcsec, and no other deep source is matched to that ultra-deep
\* source, nor is a deep source with that only nearest ultra-deep source
\* nearer to it.  A deep source with an ultra-deep source within 0.5 arcsec is
\* unmatched only when a nearest ultra-deep source of it is matched to
\* another deep source, at no greater separation.
C10_UnmatchedIffNoCounterpartOrDuplicate ==
    (notebook = "LVV-T1068" /\ pc \in T1068_AfterFound) =>
        /\ found_objects_idx \cup unmatched_idx = DOMAIN deep_coords
        /\ found_objects_idx \cap unmatched_idx = {}
        /\ \A i \in DOMAIN deep_coords :
            /\ ~HasCounterpart(i) => i \in unmatched_idx
            /\ i \in found_objects_idx =>
                   /\ matched_idx[i] \in NearestIdx(deep_coords[i], u_deep_coords)
                   /\ DeepSep(i, matched_idx[i]) <= max_sep
                   /\ d2d[i] = DeepSep(i, matched_idx[i])
                   /\ \A j \in found_objects_idx :
                          matched_idx[j] = matched_idx[i] => j = i
                   /\ \A j \in DOMAIN deep_coords :
                          NearestIdx(deep_coords[j], u_deep_coords) = {matched_idx[i]}
                              => d2d[i] <= d2d[j]
            /\ (i \in unmatched_idx /\ HasCounterpart(i)) =>
                   \E j \in found_objects_idx :
                       /\ j # i
                       /\ matched_idx[j] \in NearestIdx(deep_coords[i], u_deep_coords)
                       /\ d2d[j] <= d2d[i]

\* C10, the case: a deep source within 0.5 arcsec of an ultra-deep source
\* is unmatched, and so is one with none within 0.5 arcsec.
C10_Witness ==
    /\ notebook = "LVV-T1068" /\ pc = "done"
    /\ \E i \in unmatched_idx : HasCounterpart(i)
    /\ \E i \in unmatched_idx : ~HasCounterpart(i)

\* C11: in LVV-T1068, once found_objects_idx and unmatched_idx are set they
\* partition the indices of the deep catalogue (disjoint, and together every
\* index), and once false_positive_frac is computed it is
\* 1 - |found_objects_idx| / |deep catalogue| = |unmatched_idx| / |deep
\* catalogue|, a number of [0, 1].
C11_FoundAndUnmatchedPartition ==
    notebook = "LVV-T1068" =>
        /\ pc \in T1068_AfterFound =>
               /\ found_objects_idx \cap unmatched_idx = {}
               /\ found_objects_idx \cup unmatched_idx = DOMAIN deep_coords
               /\ DOMAIN matched_idx = DOMAIN deep_coords
        /\ pc = "done" =>
               /\ RatEq(false_positive_frac, Cardinality(unmatched_idx), Len(deep_coords))
               /\ RatEq(OneMinus(false_positive_frac),
                        Cardinality(found_objects_idx), Len(deep_coords))
               /\ 0 <= false_positive_frac.num
               /\ false_positive_frac.num <= false_positive_frac.den

\* C11, the case: the fraction is computed for a catalogue with a source
\* matched to the first ultra-deep source (index 0 in numpy) and an
\* unmatched source.
C11_Witness ==
    /\ notebook = "LVV-T1068" /\ pc = "done"
    /\ \E i \in found_objects_idx : PyValue(matched_idx[i]) = 0
    /\ unmatched_idx # {}
    /\ RatEq(false_positive_frac, 1, 3)

\* "keep only sources within 0.5 degrees of the center of each field"
StatedRadius == 50

\* C12, as stated: every deep source LVV-T1068 keeps while it reads the
\* patches of the tract, the first patch and the later ones, lies within 0.5
\* degrees of the centre of the ultra-deep field selected for the tract.
C12_DeepKeptWithinHalfDegree ==
    (notebook = "LVV-T1068" /\ deep_src_df # <<>>) =>
        \A i \in DOMAIN deep_src_df[1] :
            Separation(deep_src_df[1][i], CenterPos(ud_center)) <= StatedRadius

-----------------------------------------------------------------------------
(* LVV-T959: the report of the failures and the outlier percentage.        *)

\* the cells of LVV-T959 after both checks
T959_AfterChecks == {"fail_in_notebook", "report", "done"}

\* at least one of the two checks of LVV-T959 failed
T959_SomeCheckFailed ==
    \/ RootGT(rms_diff, RmsLimit)
    \/ OneMinusPctGT(current_outlier_frac, OutlierPctLimit)

T959_HistHasRun == pc # "rms" /\ (pc = "hist" => raised # "none")

\* C17, as stated: when no pair of LVV-T959 differs by more than 20 mas in
\* absolute value (and the largest difference is above the 10 mas step of
\* the edges, so that the histogram has a bin), the histogram cell does not
\* raise, the outlier percentage (1 - current_outlier_frac) * 100 is 0 and
\* no outlier failure is recorded.
C17_NoOutlierAboveLimitGivesZero ==
    (/\ notebook = "LVV-T959"
     /\ \A i \in DOMAIN sep_differences : Abs(sep_differences[i]) <= HistThreshold
     /\ Max(AbsAll(sep_differences)) > BinWidth
     /\ T959_HistHasRun)
    => /\ raised = "none"
       /\ RatEq(OneMinus(current_outlier_frac), 0, 1)
       /\ \A i \in DOMAIN error_msg : error_msg[i] # "outlier"

-----------------------------------------------------------------------------
(* The pairs of the sample.                                                *)

\* C14: when matched_df has at least use_objects rows, pairs_list holds
\* every unordered pair of different objects of the sample exactly once:
\* use_objects * (use_objects - 1) / 2 entries, none of an object with
\* itself, no unordered pair twice, and every index a row of matched_df.
C14_PairsListIsAllPairsOnce ==
    (pc = "pairs_done" /\ Len(matched_df) >= use_objects) =>
        /\ Len(sample) = use_objects
        /\ 2 * Len(pairs_list) = use_objects * (use_objects - 1)
        /\ \A k \in DOMAIN pairs_list :
               /\ pairs_list[k][1] # pairs_list[k][2]
               /\ \A e \in 1..2 : /\ pairs_list[k][e] \in Range(sample)
                                  /\ pairs_list[k][e] >= 0
                                  /\ pairs_list[k][e] < Len(matched_df)
        /\ \A k, l \in DOMAIN pairs_list :
               {pairs_list[k][1], pairs_list[k][2]} = {pairs_list[l][1], pairs_list[l][2]}
                   => k = l
        /\ \A a, b \in Range(sample) :
               a # b => \E k \in DOMAIN pairs_list : {pairs_list[k][1], pairs_list[k][2]} = {a, b}

\* the pairs were drawn from a matched_df with more rows than the sample,
\* and the sample is not in the order of the rows
C14_Witness ==
    /\ pc = "pairs_done"
    /\ Len(matched_df) > use_objects
    /\ 2 * Len(pairs_list) = use_objects * (use_objects - 1)
    /\ sample[1] > sample[2]

-----------------------------------------------------------------------------
(* The separation bands.                                                   *)

\* the Gaia separation s, in mas, is strictly within 30 arcsec of centre
InBand(s, centre) ==
    /\ (centre - 30) * MasPerArcsec < s
    /\ s < (centre + 30) * MasPerArcsec

\* band holds exactly the rows of df in the band of centre, in their order
IsBandOf(band, df, centre) ==
    \E f \in [DOMAIN band -> DOMAIN df] :
        /\ \A i, j \in DOMAIN band : i < j => f[i] < f[j]
        /\ \A i \in DOMAIN band : band[i] = df[f[i]]
        /\ \A k \in DOMAIN df : InBand(df[k].sep_gaia, centre) <=> \E i \in DOMAIN band : f[i] = k

\* the cells of LVV-T960 after the 5, the 20 and the 200 arcminute query
T960_AfterFiveArcmin == {"am1", "af1"} \cup T960_AfterAF1

T960_AfterTwentyArcmin == {"am2", "af2"} \cup T960_AfterAF2

T960_AfterTwoHundredArcmin == {"median_200", "hist_200", "done"}

\* no pair of df1 has the Gaia separation of a pair of df2
NoSharedSeparation(df1, df2) ==
    \A i \in DOMAIN df1, j \in DOMAIN df2 : df1[i].sep_gaia # df2[j].sep_gaia

-----------------------------------------------------------------------------
(* The lists get_best_catalog_match returns.                               *)

\* nn is an assignment of a nearest reference object to every base object
\* of LVV-T960, as match_to_catalog_sky makes it
IsNearestAssignment(nn) ==
    /\ DOMAIN nn = DOMAIN hsc_sources_coords
    /\ \A b \in DOMAIN nn :
           /\ nn[b] \in DOMAIN GaiaCoords
           /\ \A r \in DOMAIN GaiaCoords : BaseRefSep(b, nn[b]) <= BaseRefSep(b, r)

\* C16: get_best_catalog_match returns three lists of one length with one
\* entry for every reference object that is the nearest reference of some
\* base object: ref_cat_idx (ref_idx) is strictly increasing, base_cat_idx
\* (base_idx) repeats no base object, base_cat_idx[k] is a base object of
\* least separation among those whose nearest reference is ref_cat_idx[k],
\* and single_match_seps[k] (matched_seps) is that separation.
C16_OneBestBasePerNearestReference ==
    (notebook = "LVV-T960" /\ pc \in T960_AfterBest) =>
        \E nn \in [DOMAIN hsc_sources_coords -> DOMAIN GaiaCoords] :
            /\ IsNearestAssignment(nn)
            /\ Len(base_idx) = Len(ref_idx) /\ Len(matched_seps) = Len(ref_idx)
            /\ {ref_idx[k] : k \in DOMAIN ref_idx} = {nn[b] : b \in DOMAIN nn}
            /\ \A k \in 1..(Len(ref_idx) - 1) : ref_idx[k] < ref_idx[k + 1]
            /\ \A k, l \in DOMAIN base_idx : base_idx[k] = base_idx[l] => k = l
            /\ \A k \in DOMAIN base_idx :
                   /\ base_idx[k] \in DOMAIN nn
                   /\ nn[base_idx[k]] = ref_idx[k]
                   /\ \A b \in DOMAIN nn :
                          nn[b] = ref_idx[k] =>
                              BaseRefSep(base_idx[k], ref_idx[k]) <= BaseRefSep(b, ref_idx[k])
                   /\ matched_seps[k] = BaseRefSep(base_idx[k], ref_idx[k])

\* two base objects have the same nearest reference object, the second of
\* them is the nearer one and it is the one returned
C16_Witness ==
    /\ notebook = "LVV-T960" /\ pc = "matched_df"
    /\ Len(hsc_sources_coords) = 2 /\ Len(GaiaCoords) = 2
    /\ Len(ref_idx) = 1
    /\ base_idx = <<2>>
    /\ matched_seps[1] < BaseRefSep(1, ref_idx[1])

-----------------------------------------------------------------------------
(* part_001: the checks over an empty band.                                *)

\* the cells of part_001 after the two checks of the ~5 arcminute band, and
\* after the two checks of the ~20 arcminute band
P1_AfterChecks5 ==
    {"check_median_20", "check_outlier_20", "check_median_200", "check_outlier_200",
     "raise", "done"}

P1_AfterChecks20 == {"check_median_200", "check_outlier_200", "raise", "done"}

\* C18, as stated: in part_001 an empty ~5 or ~20 arcminute band records a
\* failure when its checks run, as an empty ~200 arcminute band does, and the
\* notebook then ends with RequirementFailure: it never runs to its end
\* with an empty band.
C18_EmptyBandRecordsFailure ==
    notebook = "part_001" =>
        /\ (pc \in P1_AfterChecks5 /\ five_arcmin_df = <<>>) => error_present
        /\ (pc \in P1_AfterChecks20 /\ twenty_arcmin_df = <<>>) => error_present
        /\ (pc \in {"raise", "done"} /\ two_hundred_arcmin_df = <<>>) => error_present
        /\ pc = "done" => five_arcmin_df # <<>> /\ twenty_arcmin_df # <<>>
                              /\ two_hundred_arcmin_df # <<>>

-----------------------------------------------------------------------------
(* LVV-T1068: the matches after the rejection and the duplicate removal.   *)

\* the cells of LVV-T1068 after the loop over the duplicated matches
T1068_AfterDuplicates == {"found"} \cup T1068_AfterFound

\* nn gives every deep source a nearest ultra-deep source, at the
\* separation d2d that match_to_catalog_sky returned
IsNearestUDeep(nn) ==
    /\ DOMAIN nn = DOMAIN deep_coords
    /\ \A i \in DOMAIN nn :
           /\ nn[i] \in DOMAIN u_deep_coords
           /\ DeepSep(i, nn[i]) = d2d[i]
           /\ \A u \in DOMAIN u_deep_coords : DeepSep(i, nn[i]) <= DeepSep(i, u)

\* the deep sources whose nearest ultra-deep source is u, within 0.5 arcsec
NearWithin(nn, u) == {i \in DOMAIN nn : nn[i] = u /\ d2d[i] <= max_sep}

\* C19: in LVV-T1068, after the rejection and the loop over the duplicates,
\* every ultra-deep source is the match of at most one deep source, every
\* deep source still matched is within 0.5 arcsec of its match, and of the
\* deep sources that had the same nearest ultra-deep source within 0.5
\* arcsec exactly one stays matched to it, one of least separation, the
\* others being -99.
C19_OneClosestDeepPerUDeep ==
    (notebook = "LVV-T1068" /\ pc \in T1068_AfterDuplicates) =>
        /\ \A i, j \in DOMAIN matched_idx :
               (matched_idx[i] # Rejected /\ matched_idx[i] = matched_idx[j]) => i = j
        /\ \A i \in DOMAIN matched_idx :
               matched_idx[i] # Rejected =>
                   /\ matched_idx[i] \in DOMAIN u_deep_coords
                   /\ DeepSep(i, matched_idx[i]) <= max_sep
        /\ \E nn \in [DOMAIN deep_coords -> DOMAIN u_deep_coords] :
               /\ IsNearestUDeep(nn)
               /\ \A u \in DOMAIN u_deep_coords :
                      NearWithin(nn, u) # {} =>
                          \E i \in NearWithin(nn, u) :
                              /\ matched_idx[i] = u
                              /\ \A j \in NearWithin(nn, u) :
                                     /\ d2d[i] <= d2d[j]
                                     /\ j # i => matched_idx[j] = Rejected

\* an ultra-deep source was the nearest one, within 0.5 arcsec, of two deep
\* sources: the later and nearer one is still matched, the other is -99
C19_Witness ==
    /\ notebook = "LVV-T1068" /\ pc = "found"
    /\ \E i, j \in DOMAIN matched_idx :
           /\ i < j
           /\ matched_idx[i] = Rejected /\ d2d[i] <= max_sep
           /\ matched_idx[j] # Rejected /\ d2d[j] < d2d[i]
           /\ \A u \in DOMAIN u_deep_coords : DeepSep(i, matched_idx[j]) <= DeepSep(i, u)

====
